---- MODULE Spec2Model ----
(***************************************************************************)
(* Model of models/llm/sync_models.py: the reconciliation of a directory   *)
(* of per-model YAML definition files against the remote model catalog.    *)
(*                                                                         *)
(* Strings are sequences of one-character strings, so that split, join,    *)
(* strip, title, the regular-expression search and the number formatting   *)
(* are computed character by character, as the Python code computes them.  *)
(* The CJK characters of the reasoning keywords are written by their       *)
(* pinyin ("si" "wei" = U+601D U+7EF4, "tui" "li" = U+63A8 U+7406,         *)
(* "si" "kao" = U+601D U+8003): each name stands for one character.        *)
(***************************************************************************)
EXTENDS Integers, Sequences, FiniteSets, TLC

VARIABLES
    (* ---- the reconciliation run (sync_yaml_files) ---- *)
    pc,            \* position of the run
    run,           \* number of the current run (the script is re-run)
    remote,        \* the JSON document the endpoint serves
    files,         \* the directory: file name -> file content
    api_models,    \* dict id -> remote record, as keys (in insertion order) and values
    listing,       \* file names os.listdir returned and the scan has not visited yet
    existing_files,\* dict model id -> file name, as a sequence of <<id, filename>>
    idx,           \* loop index of the process loop / delete loop
    startFiles,    \* history: the directory when the current run started
    prevFiles,     \* history: the directory when the previous run completed
    scanned,       \* history: existing_files as the scan left it
    updated,       \* history: names the update branch looked at, with what it did
    created,       \* history: <<id, filename>> the create branch wrote
    deleted,       \* history: names the delete loop removed
    changes,       \* history: number of change lines reported in this run
    error,         \* the exception that ended the run, or "none"
    (* ---- the pure functions, applied to drawn inputs ---- *)
    fpc,           \* position of the pure-function harness
    price,         \* two raw prices, <<p, q>>
    rerr,          \* the rounding errors of the two float divisions
    priceOut,      \* the two converted strings
    rec,           \* a remote record given to determine_model_features
    featOut,       \* its result
    catalog,       \* a "data" array given to create_position_yaml
    indexOut       \* the text written to _position.yaml

runVars == <<pc, run, remote, files, api_models, listing, existing_files, idx,
             startFiles, prevFiles, scanned, updated, created,
             deleted, changes, error>>
funVars == <<fpc, price, rerr, priceOut, rec, featOut, catalog, indexOut>>
vars == <<runVars, funVars>>

-----------------------------------------------------------------------------
(* Bounds of the model *)

MaxCatalog == 3
MaxFiles == 3
MaxRuns == 2
MaxIdLen == 5
MaxIndexCatalog == 4
MaxHundreds == 12
FloatScale == 100

-----------------------------------------------------------------------------
(* Strings *)

LowerCase == <<"a","b","c","d","e","f","g","h","i","j","k","l","m",
               "n","o","p","q","r","s","t","u","v","w","x","y","z">>
UpperCase == <<"A","B","C","D","E","F","G","H","I","J","K","L","M",
               "N","O","P","Q","R","S","T","U","V","W","X","Y","Z">>
Digits == <<"0","1","2","3","4","5","6","7","8","9">>

Range(s) == {s[i] : i \in DOMAIN s}

IndexIn(c, s) == CHOOSE i \in DOMAIN s : s[i] = c

IsLower(c) == c \in Range(LowerCase)
IsUpper(c) == c \in Range(UpperCase)
IsDigit(c) == c \in Range(Digits)
IsSpace(c) == c \in {" ", "\n", "\t"}

\* str.lower() and str.upper() on one character
LowerChar(c) == IF IsUpper(c) THEN LowerCase[IndexIn(c, UpperCase)] ELSE c
UpperChar(c) == IF IsLower(c) THEN UpperCase[IndexIn(c, LowerCase)] ELSE c

\* str.lower()
Lower(s) == [i \in DOMAIN s |-> LowerChar(s[i])]

\* str.title(): a cased character is upper-cased when the character before it
\* is not cased, lower-cased otherwise
Title(s) ==
    [i \in DOMAIN s |->
        IF i > 1 /\ (IsLower(s[i-1]) \/ IsUpper(s[i-1]))
        THEN LowerChar(s[i]) ELSE UpperChar(s[i])]

\* sub in s
Contains(sub, s) ==
    \E i \in 1..(Len(s) - Len(sub) + 1) : SubSeq(s, i, i + Len(sub) - 1) = sub

\* s.endswith(suf)
EndsWith(s, suf) ==
    Len(s) >= Len(suf) /\ SubSeq(s, Len(s) - Len(suf) + 1, Len(s)) = suf

\* s.rstrip(c): drop the trailing run of the character c
RECURSIVE RStripChar(_, _)
RStripChar(s, c) ==
    IF s # <<>> /\ s[Len(s)] = c THEN RStripChar(SubSeq(s, 1, Len(s) - 1), c) ELSE s

\* s.rstrip(): drop trailing white space
RECURSIVE RStrip(_)
RStrip(s) ==
    IF s # <<>> /\ IsSpace(s[Len(s)]) THEN RStrip(SubSeq(s, 1, Len(s) - 1)) ELSE s

RECURSIVE LStrip(_)
LStrip(s) == IF s # <<>> /\ IsSpace(s[1]) THEN LStrip(Tail(s)) ELSE s

\* s.strip()
Strip(s) == RStrip(LStrip(s))

\* s.split(sep) for a one-character separator: always at least one segment
RECURSIVE SplitFrom(_, _, _)
SplitFrom(s, sep, cur) ==
    IF s = <<>> THEN <<cur>>
    ELSE IF s[1] = sep THEN <<cur>> \o SplitFrom(Tail(s), sep, <<>>)
    ELSE SplitFrom(Tail(s), sep, Append(cur, s[1]))

Split(s, sep) == SplitFrom(s, sep, <<>>)

\* sep.join(segs)
RECURSIVE Join(_, _)
Join(segs, sep) ==
    IF segs = <<>> THEN <<>>
    ELSE IF Len(segs) = 1 THEN segs[1]
    ELSE segs[1] \o sep \o Join(Tail(segs), sep)

\* int(s) for a string of digits
RECURSIVE ToInt(_)
ToInt(s) ==
    IF s = <<>> THEN 0
    ELSE 10 * ToInt(SubSeq(s, 1, Len(s) - 1)) + (IndexIn(s[Len(s)], Digits) - 1)

\* the decimal digits of a natural number
RECURSIVE ToDigits(_)
ToDigits(n) ==
    IF n < 10 THEN <<Digits[n + 1]>> ELSE Append(ToDigits(n \div 10), Digits[(n % 10) + 1])

\* all strings over an alphabet of at most n characters
RECURSIVE StringsUpTo(_, _)
StringsUpTo(alphabet, n) ==
    IF n = 0 THEN {<<>>}
    ELSE LET shorter == StringsUpTo(alphabet, n - 1)
         IN  shorter \cup {Append(s, c) : s \in shorter, c \in alphabet}

\* all sequences over a set, of at most n elements
RECURSIVE SeqsUpTo(_, _)
SeqsUpTo(S, n) ==
    IF n = 0 THEN {<<>>}
    ELSE LET shorter == SeqsUpTo(S, n - 1)
         IN  shorter \cup {Append(s, e) : s \in shorter, e \in S}

-----------------------------------------------------------------------------
(* convert_price *)

\* price_per_m / 1000000 in float arithmetic. The quotient is kept in units of
\* 1e-6 / FloatScale; d is the rounding error of the division, whose size in
\* IEEE double arithmetic (under 2e-9 of that unit's FloatScale multiple for
\* prices up to 1e7) stays below one such unit.
FloatDivMillion(price_per_m, d) == price_per_m * FloatScale + d

\* f"{v:.6f}": v rounded to the nearest 1e-6, printed with six fractional digits
Micros(v) == (v + FloatScale \div 2) \div FloatScale

Pad6(ds) == [i \in 1..(6 - Len(ds)) |-> "0"] \o ds

FormatFixed6(v) ==
    LET m == Micros(v)
    IN  ToDigits(m \div 1000000) \o <<".">> \o Pad6(ToDigits(m % 1000000))

\* the two strips in the other order
TrimDigitsWrong(s) == RStripChar(RStripChar(s, "."), "0")

\* .rstrip("0").rstrip(".")
TrimDigits(s) == RStripChar(RStripChar(s, "0"), ".")

convert_price_float(price_per_m, d) ==
    TrimDigits(FormatFixed6(FloatDivMillion(price_per_m, d)))

\* convert_price with the division exact (PriceExact shows the rounding error
\* of the division never reaches the printed digits)
convert_price(price_per_m) == convert_price_float(price_per_m, 0)

-----------------------------------------------------------------------------
(* determine_model_features *)

TOOL_CALL == "tool-call"
MULTI_TOOL_CALL == "multi-tool-call"
AGENT_THOUGHT == "agent-thought"
VISION == "vision"
STREAM_TOOL_CALL == "stream-tool-call"
STRUCTURED_OUTPUT == "structured-output"

\* the features one API feature maps to (the if/elif chain of the loop)
MapApiFeature(api_feature) ==
    IF api_feature = "function-calling"
    THEN {TOOL_CALL, MULTI_TOOL_CALL, STREAM_TOOL_CALL}
    ELSE IF api_feature = "structured-outputs" THEN {STRUCTURED_OUTPUT}
    ELSE IF api_feature = "vision" THEN {VISION}
    ELSE {}

MappedFeatures(api_features) ==
    UNION {MapApiFeature(api_features[i]) : i \in DOMAIN api_features}

thinking_keywords == {<<"si", "wei">>, <<"tui", "li">>, <<"si", "kao">>}

\* the index of the last digit of the run of digits that starts at i
RECURSIVE DigitRunEnd(_, _)
DigitRunEnd(s, i) ==
    IF i < Len(s) /\ IsDigit(s[i + 1]) THEN DigitRunEnd(s, i + 1) ELSE i

\* re.search(r'(\d+)b', s): the leftmost match, as <<group 1>>, or <<>> for None.
\* (\d+) is greedy and a digit is never "b", so a match that starts at i takes
\* the whole run of digits from i and needs "b" right after it.
RECURSIVE SizeSearchFrom(_, _)
SizeSearchFrom(s, i) ==
    IF i > Len(s) THEN <<>>
    ELSE IF IsDigit(s[i])
              /\ DigitRunEnd(s, i) < Len(s) /\ s[DigitRunEnd(s, i) + 1] = "b"
         THEN <<SubSeq(s, i, DigitRunEnd(s, i))>>
         ELSE SizeSearchFrom(s, i + 1)

SizeSearch(s) == SizeSearchFrom(s, 1)

HasThinkInId(model_id) == Contains(<<"t", "h", "i", "n", "k">>, Lower(model_id))

HasThinkingKeyword(description) ==
    description # <<>> /\ \E keyword \in thinking_keywords : Contains(keyword, description)

\* the size check, made only when has_agent_thought is still False
SizeOver70(model_id) ==
    LET size_match == SizeSearch(Lower(model_id))
    IN  size_match # <<>> /\ ToInt(size_match[1]) > 70

has_agent_thought(api_model) ==
    \/ HasThinkInId(api_model.id)
    \/ HasThinkingKeyword(api_model.description)
    \/ SizeOver70(api_model.id)

\* the result as a set: the code returns list(set(features))
determine_model_features(api_model) ==
    MappedFeatures(api_model.features)
        \cup (IF has_agent_thought(api_model) THEN {AGENT_THOUGHT} ELSE {})

-----------------------------------------------------------------------------
(* create_position_yaml *)

Slash == "/"
Newline == "\n"

\* model_id.split("/")[0]
ProviderOf(model_id) == Split(model_id, Slash)[1]

\* model_groups after the grouping loop: a dict in insertion order, kept as a
\* sequence of <<provider, models>>
\* grouping that only extends the group added last
AddToNewGroup(groups, provider, model_id) ==
    IF groups # <<>> /\ groups[Len(groups)][1] = provider
    THEN SubSeq(groups, 1, Len(groups) - 1)
             \o << <<provider, Append(groups[Len(groups)][2], model_id)>> >>
    ELSE Append(groups, <<provider, <<model_id>> >>)

RECURSIVE AddToGroups(_, _, _)
AddToGroups(groups, provider, model_id) ==
    IF groups = <<>> THEN << <<provider, <<model_id>> >> >>
    ELSE IF groups[1][1] = provider
         THEN << <<provider, Append(groups[1][2], model_id)>> >> \o Tail(groups)
         ELSE <<groups[1]>> \o AddToGroups(Tail(groups), provider, model_id)

RECURSIVE GroupModels(_, _)
GroupModels(model_ids, groups) ==
    IF model_ids = <<>> THEN groups
    ELSE GroupModels(Tail(model_ids),
                     AddToGroups(groups, ProviderOf(model_ids[1]), model_ids[1]))

HeaderLine(provider) ==
    <<"#", " ">> \o Title(provider) \o <<" ", "M", "o", "d", "e", "l", "s">>

EntryLine(model_id) == <<"-", " ">> \o model_id

\* the content list: per group its header, its entries and an empty line
RECURSIVE ContentLines(_)
ContentLines(groups) ==
    IF groups = <<>> THEN <<>>
    ELSE <<HeaderLine(groups[1][1])>>
             \o [i \in DOMAIN groups[1][2] |-> EntryLine(groups[1][2][i])]
             \o << <<>> >>
             \o ContentLines(Tail(groups))

\* the text written to _position.yaml: "\n".join(content).rstrip() + "\n"
create_position_yaml(data) ==
    LET model_ids == [i \in DOMAIN data |-> data[i].id]
    IN  Append(RStrip(Join(ContentLines(GroupModels(model_ids, <<>>)), <<Newline>>)),
               Newline)

-----------------------------------------------------------------------------
(* Files and dicts *)

YamlExt == <<".", "y", "a", "m", "l">>
PositionName == <<"_", "p", "o", "s", "i", "t", "i", "o", "n">> \o YamlExt
SkippedNames == {<<"c","h","e","c","k","_","y","a","m","l","_","c","o","n","s",
                   "i","s","t","e","n","c","y",".","p","y">>,
                 <<"f","i","x","_","y","a","m","l","_","f","i","l","e","s",".","p","y">>}

\* Python's None, as a value no string equals
None == <<"<None>">>

\* a file whose text is a YAML mapping, held as the data safe_load returns, and
\* a file whose text is anything else (a list, a scalar, empty, a syntax error)
Mapping(data) == [kind |-> "mapping", data |-> data]
Other(text) == [kind |-> "other", text |-> text]

\* a dict in insertion order: a sequence of <<key, value>>
DictHas(d, k) == \E i \in DOMAIN d : d[i][1] = k
DictGet(d, k) == d[CHOOSE i \in DOMAIN d : d[i][1] = k][2]
DictSet(d, k, v) ==
    IF DictHas(d, k) THEN [i \in DOMAIN d |-> IF d[i][1] = k THEN <<k, v>> ELSE d[i]]
    ELSE Append(d, <<k, v>>)

\* {model["id"]: model for model in data}
RECURSIVE DictOfData(_, _)
DictOfData(data, d) ==
    IF data = <<>> THEN d ELSE DictOfData(Tail(data), DictSet(d, data[1].id, data[1]))

\* open(path, "w") and write; os.remove
WriteFile(fs, name, content) ==
    [n \in DOMAIN fs \cup {name} |-> IF n = name THEN content ELSE fs[n]]
RemoveFile(fs, name) == [n \in DOMAIN fs \ {name} |-> fs[n]]

\* load_yaml_file: the data of a mapping, {} for anything else; the data is a
\* record, and {} is the record with no field
EmptyDict == [x \in {} |-> 0]
load_yaml_file(content) == IF content.kind = "mapping" THEN content.data ELSE EmptyDict

\* d.get("model")
GetModel(yaml_data) == IF "model" \in DOMAIN yaml_data THEN yaml_data.model ELSE None

\* the truth value of a str-or-None
Truthy(v) == v # None /\ v # <<>>

-----------------------------------------------------------------------------
(* create_yaml_template *)

\* api_model.get("display_name", "").strip() or api_model["id"]
TitleOf(api_model) ==
    IF Strip(api_model.display_name) # <<>> THEN Strip(api_model.display_name)
    ELSE api_model.id

Rule(name, min, max, default) ==
    [name |-> name, use_template |-> name, min |-> min, max |-> max, default |-> default]

DefaultRules ==
    << Rule("temperature", 0, 2, 1), Rule("top_p", 0, 1, 1),
       Rule("max_tokens", 1, 2048, 512), Rule("frequency_penalty", -2, 2, 0),
       Rule("presence_penalty", -2, 2, 0) >>

\* list(set(features)): one order of the set (Python leaves the order open; the
\* order is compared nowhere, the stored list is read back through set())
FeatureOrder == <<TOOL_CALL, MULTI_TOOL_CALL, STREAM_TOOL_CALL, STRUCTURED_OUTPUT,
                  VISION, AGENT_THOUGHT>>
ListOfSet(S) == LET Test(x) == x \in S IN SelectSeq(FeatureOrder, Test)

create_yaml_template(model_id, api_model) ==
    [ model |-> model_id,
      label |-> [zh_Hans |-> TitleOf(api_model), en_US |-> TitleOf(api_model)],
      model_type |-> "llm",
      features |-> ListOfSet(determine_model_features(api_model)),
      model_properties |-> [mode |-> "chat", context_size |-> api_model.context_size],
      parameter_rules |-> DefaultRules,
      pricing |-> [ input |-> convert_price(api_model.input_token_price_per_m),
                    output |-> convert_price(api_model.output_token_price_per_m),
                    unit |-> "0.0001", currency |-> "CNY" ] ]

\* "-".join(model_id.split("/")[1:]) + ".yaml"
NewFilename(model_id) == Join(Tail(Split(model_id, Slash)), <<"-">>) \o YamlExt

-----------------------------------------------------------------------------
(* The inputs: remote catalogs and directories *)

IdAX == <<"a", "/", "x">>
IdBX == <<"b", "/", "x">>
IdY == <<"y">>
IdOld == <<"o", "l", "d", "/", "m">>

RemoteAX ==
    [ id |-> IdAX, display_name |-> <<>>, context_size |-> 4096,
      input_token_price_per_m |-> 8900, output_token_price_per_m |-> 0,
      features |-> <<"function-calling">>, description |-> <<>> ]
RemoteBX ==
    [ id |-> IdBX, display_name |-> <<" ", "N">>, context_size |-> 8192,
      input_token_price_per_m |-> 100, output_token_price_per_m |-> 1000000,
      features |-> <<"vision", "serverless">>, description |-> <<"tui", "li">> ]
RemoteY ==
    [ id |-> IdY, display_name |-> <<"Y">>, context_size |-> 4096,
      input_token_price_per_m |-> 0, output_token_price_per_m |-> 0,
      features |-> <<>>, description |-> <<>> ]

RemoteUniverse == {RemoteAX, RemoteBX, RemoteY}

HasRepeatedId(data) == \E i, j \in DOMAIN data : i < j /\ data[i].id = data[j].id

\* the catalogs: record ids are unique (spec section 3)
Catalogs == {data \in SeqsUpTo(RemoteUniverse, MaxCatalog) : ~HasRepeatedId(data)}

\* the documents response.json() returns: {"data": [records]}, {"data": {}},
\* {"data": null} and a document without "data" (an error body). data holds
\* what iterating api_data["data"] yields.
ArrayDoc(data) == [kind |-> "array", data |-> data]
EmptyObjectDoc == [kind |-> "object", data |-> <<>>]
NullDataDoc == [kind |-> "null", data |-> <<>>]
NoDataDoc == [kind |-> "nokey", data |-> <<>>]

Documents == {ArrayDoc(data) : data \in Catalogs}
                 \cup {EmptyObjectDoc, NullDataDoc, NoDataDoc}

\* api_data["data"] raises KeyError, or iterating it raises TypeError
DataRaises(doc) == doc.kind \in {"nokey", "null"}

CustomRules == << Rule("temperature", 0, 1, 1) >>

\* a definition of a/x that agrees with the catalog, with hand-edited rules
LocalFreshAX ==
    [create_yaml_template(IdAX, RemoteAX) EXCEPT !.parameter_rules = CustomRules]

\* a definition of b/x that has drifted from the catalog in context size and
\* label, with hand-edited rules and its features in another order
LocalStaleBX ==
    [create_yaml_template(IdBX, RemoteBX) EXCEPT
        !.parameter_rules = CustomRules,
        !.model_properties.context_size = 2048,
        !.label.zh_Hans = <<"b">>,
        !.features = <<AGENT_THOUGHT, VISION>>]

\* a definition of a model the catalog does not list
LocalOld == create_yaml_template(IdOld, [RemoteY EXCEPT !.id = IdOld])

LocalContents ==
    {Mapping(LocalFreshAX), Mapping(LocalStaleBX), Mapping(LocalOld),
     Other(<<":", " ", "[">>)}

NameX == <<"x">> \o YamlExt
NameO == <<"o">> \o YamlExt
NameP == <<"p">> \o YamlExt
NamePy == <<"s", ".", "p", "y">>

YamlNames == {NameX, NameO, NameP}
LocalNames == YamlNames \cup {NamePy}

\* the directories: at most MaxFiles files; a .py file is no YAML mapping
Directories ==
    UNION { { fs \in [D -> LocalContents] :
                \A n \in D : n \notin YamlNames => fs[n].kind = "other" } :
            D \in {D \in SUBSET LocalNames : Cardinality(D) <= MaxFiles} }

-----------------------------------------------------------------------------
(* sync_yaml_files *)

\* the history variables of one run, reset
ResetHistory ==
    /\ scanned' = <<>>
    /\ updated' = {}
    /\ created' = {}
    /\ deleted' = {}
    /\ changes' = 0

FunOff ==
    /\ fpc = "off"
    /\ price = <<0, 0>>
    /\ rerr = <<0, 0>>
    /\ priceOut = <<>>
    /\ rec = RemoteY
    /\ featOut = {}
    /\ catalog = <<>>
    /\ indexOut = <<>>

Init ==
    /\ pc = "start"
    /\ run = 1
    /\ remote \in Documents
    /\ files \in Directories
    /\ api_models = <<>>
    /\ listing = {}
    /\ existing_files = <<>>
    /\ idx = 1
    /\ startFiles = files
    /\ prevFiles = files
    /\ scanned = <<>>
    /\ updated = {}
    /\ created = {}
    /\ deleted = {}
    /\ changes = 0
    /\ error = "none"
    /\ FunOff

\* get_api_data() returns the document and api_data["data"] is the array
FetchOk ==
    /\ pc = "start"
    /\ ~DataRaises(remote)
    /\ api_models' = DictOfData(remote.data, <<>>)
    /\ pc' = "position"
    /\ UNCHANGED <<run, remote, files, listing, existing_files, idx, startFiles,
                   prevFiles, scanned, updated, created, deleted,
                   changes, error, funVars>>

\* requests.get or response.json() raises: the exception leaves sync_yaml_files
FetchRaises ==
    /\ pc = "start"
    /\ pc' = "aborted"
    /\ error' = "RequestException"
    /\ UNCHANGED <<run, remote, files, api_models, listing, existing_files, idx,
                   startFiles, prevFiles, scanned, updated, created,
                   deleted, changes, funVars>>

\* the document has no "data", or a "data" that cannot be iterated: the
\* comprehension of line 171 raises KeyError or TypeError
FetchNoData ==
    /\ pc = "start"
    /\ DataRaises(remote)
    /\ pc' = "aborted"
    /\ error' = "KeyError"
    /\ UNCHANGED <<run, remote, files, api_models, listing, existing_files, idx,
                   startFiles, prevFiles, scanned, updated, created,
                   deleted, changes, funVars>>

\* create_position_yaml(yaml_dir, api_data["data"])
WritePosition ==
    /\ pc = "position"
    /\ files' = WriteFile(files, PositionName, Other(create_position_yaml(remote.data)))
    /\ pc' = "listdir"
    /\ UNCHANGED <<run, remote, api_models, listing, existing_files, idx,
                   startFiles, prevFiles, scanned, updated, created,
                   deleted, changes, error, funVars>>

\* existing_files = {} and os.listdir(yaml_dir)
ListDir ==
    /\ pc = "listdir"
    /\ existing_files' = <<>>
    /\ listing' = DOMAIN files
    /\ pc' = "scan"
    /\ UNCHANGED <<run, remote, files, api_models, idx, startFiles, prevFiles,
                   scanned, updated, created, deleted, changes, error,
                   funVars>>

\* the scan's filter on a file name
ScanSkips(filename) == ~EndsWith(filename, YamlExt) \/ filename \in SkippedNames

\* the loop body without its two guards
RegisterAlways(existing, filename, yaml_data) ==
    DictSet(existing, GetModel(yaml_data), filename)

\* the body of the scan loop after the load: existing_files after this file
Register(existing, filename, yaml_data) ==
    IF DOMAIN yaml_data = {} THEN existing
    ELSE IF Truthy(GetModel(yaml_data))
         THEN DictSet(existing, GetModel(yaml_data), filename)
         ELSE existing

\* one iteration of the scan loop; os.listdir gives the names in any order
ScanFile ==
    /\ pc = "scan"
    /\ \E filename \in listing :
        /\ listing' = listing \ {filename}
        /\ IF ScanSkips(filename)
           THEN UNCHANGED existing_files
           ELSE existing_files' =
                    Register(existing_files, filename, load_yaml_file(files[filename]))
    /\ UNCHANGED <<pc, run, remote, files, api_models, idx, startFiles, prevFiles,
                   scanned, updated, created, deleted, changes, error, funVars>>

ScanDone ==
    /\ pc = "scan"
    /\ listing = {}
    /\ scanned' = existing_files
    /\ idx' = 1
    /\ pc' = "process"
    /\ UNCHANGED <<run, remote, files, api_models, listing, existing_files,
                   startFiles, prevFiles, updated, created, deleted,
                   changes, error, funVars>>

\* the comparisons of the update branch, one per change line
ContextDiffers(yaml_data, api_model) ==
    yaml_data.model_properties.context_size # api_model.context_size
InputDiffers(yaml_data, api_model) ==
    yaml_data.pricing.input # convert_price(api_model.input_token_price_per_m)
OutputDiffers(yaml_data, api_model) ==
    yaml_data.pricing.output # convert_price(api_model.output_token_price_per_m)
LabelDiffers(yaml_data, api_model) ==
    \/ yaml_data.label.zh_Hans # TitleOf(api_model)
    \/ yaml_data.label.en_US # TitleOf(api_model)
FeaturesDiffer(yaml_data, api_model) ==
    Range(yaml_data.features) # determine_model_features(api_model)

\* len(changes)
ChangeCount(yaml_data, api_model) ==
    (IF ContextDiffers(yaml_data, api_model) THEN 1 ELSE 0)
    + (IF InputDiffers(yaml_data, api_model) THEN 1 ELSE 0)
    + (IF OutputDiffers(yaml_data, api_model) THEN 1 ELSE 0)
    + (IF LabelDiffers(yaml_data, api_model) THEN 1 ELSE 0)
    + (IF FeaturesDiffer(yaml_data, api_model) THEN 1 ELSE 0)

\* yaml_data after the assignments of the update branch
UpdatedData(yaml_data, api_model) ==
    [yaml_data EXCEPT
        !.model_properties.context_size = api_model.context_size,
        !.pricing.input = convert_price(api_model.input_token_price_per_m),
        !.pricing.output = convert_price(api_model.output_token_price_per_m),
        !.label.zh_Hans = TitleOf(api_model),
        !.label.en_US = TitleOf(api_model),
        !.features = IF FeaturesDiffer(yaml_data, api_model)
                     THEN ListOfSet(determine_model_features(api_model))
                     ELSE @]

\* one iteration of the process loop, the branch "model_id in existing_files"
UpdateExisting ==
    /\ pc = "process"
    /\ idx <= Len(api_models)
    /\ DictHas(existing_files, api_models[idx][1])
    /\ LET api_model == api_models[idx][2]
           filename == DictGet(existing_files, api_models[idx][1])
           yaml_data == load_yaml_file(files[filename])
       IN  IF DOMAIN yaml_data = {}
           THEN \* yaml_data["pricing"] on {} raises KeyError
                /\ pc' = "crashed"
                /\ error' = "KeyError"
                /\ UNCHANGED <<files, idx, updated, changes>>
           ELSE /\ files' = IF ChangeCount(yaml_data, api_model) > 0
                            THEN WriteFile(files, filename,
                                           Mapping(UpdatedData(yaml_data, api_model)))
                            ELSE files
                /\ updated' = IF ChangeCount(yaml_data, api_model) > 0
                              THEN updated \cup {filename} ELSE updated
                /\ changes' = changes + ChangeCount(yaml_data, api_model)
                /\ idx' = idx + 1
                /\ UNCHANGED <<pc, error>>
    /\ UNCHANGED <<run, remote, api_models, listing, existing_files, startFiles,
                   prevFiles, scanned, created, deleted, funVars>>

\* one iteration of the process loop, the else branch
CreateNew ==
    /\ pc = "process"
    /\ idx <= Len(api_models)
    /\ ~DictHas(existing_files, api_models[idx][1])
    /\ LET model_id == api_models[idx][1]
           api_model == api_models[idx][2]
           new_filename == NewFilename(model_id)
       IN  /\ files' = WriteFile(files, new_filename,
                                 Mapping(create_yaml_template(model_id, api_model)))
           /\ created' = created \cup {<<model_id, new_filename>>}
    /\ idx' = idx + 1
    /\ UNCHANGED <<pc, run, remote, api_models, listing, existing_files,
                   startFiles, prevFiles, scanned, updated, deleted,
                   changes, error, funVars>>

ProcessDone ==
    /\ pc = "process"
    /\ idx > Len(api_models)
    /\ idx' = 1
    /\ pc' = "delete"
    /\ UNCHANGED <<run, remote, files, api_models, listing, existing_files,
                   startFiles, prevFiles, scanned, updated, created,
                   deleted, changes, error, funVars>>

\* one iteration of the delete loop
DeleteStep ==
    /\ pc = "delete"
    /\ idx <= Len(existing_files)
    /\ LET model_id == existing_files[idx][1]
           filename == existing_files[idx][2]
       IN  IF DictHas(api_models, model_id)
           THEN UNCHANGED <<files, deleted, pc, error>>
           ELSE IF filename \in DOMAIN files
                THEN /\ files' = RemoveFile(files, filename)
                     /\ deleted' = deleted \cup {filename}
                     /\ UNCHANGED <<pc, error>>
                ELSE \* os.remove of a missing file raises
                     /\ pc' = "crashed"
                     /\ error' = "FileNotFoundError"
                     /\ UNCHANGED <<files, deleted>>
    /\ idx' = idx + 1
    /\ UNCHANGED <<run, remote, api_models, listing, existing_files, startFiles,
                   prevFiles, scanned, updated, created, changes,
                   funVars>>

DeleteDone ==
    /\ pc = "delete"
    /\ idx > Len(existing_files)
    /\ pc' = "done"
    /\ UNCHANGED <<run, remote, files, api_models, listing, existing_files, idx,
                   startFiles, prevFiles, scanned, updated, created,
                   deleted, changes, error, funVars>>

\* the script is started again, on the directory the last run left and with
\* the catalog unchanged
Rerun ==
    /\ pc = "done"
    /\ run < MaxRuns
    /\ run' = run + 1
    /\ pc' = "start"
    /\ prevFiles' = files
    /\ startFiles' = files
    /\ api_models' = <<>>
    /\ existing_files' = <<>>
    /\ idx' = 1
    /\ ResetHistory
    /\ UNCHANGED <<remote, files, listing, error, funVars>>

Next ==
    \/ FetchOk
    \/ FetchRaises
    \/ FetchNoData
    \/ WritePosition
    \/ ListDir
    \/ ScanFile
    \/ ScanDone
    \/ UpdateExisting
    \/ CreateNew
    \/ ProcessDone
    \/ DeleteStep
    \/ DeleteDone
    \/ Rerun

Spec == Init /\ [][Next]_vars

-----------------------------------------------------------------------------
(* What the claims about a run speak of *)

\* the remote catalog: the records of the document's data
RemoteIds == {remote.data[i].id : i \in DOMAIN remote.data}
RemoteRecord(id) == remote.data[CHOOSE i \in DOMAIN remote.data : remote.data[i].id = id]

\* the per-model definition files of a directory, and the ids they hold
DefinitionFiles(fs) == {n \in DOMAIN fs : fs[n].kind = "mapping"}
ModelsHeld(fs) == {fs[n].data.model : n \in DefinitionFiles(fs)}
FilesOf(fs, id) == {n \in DefinitionFiles(fs) : fs[n].data.model = id}

\* the fields the sync governs, as stored and as derived from a remote record
Governed(yaml_data) ==
    [ context_size |-> yaml_data.model_properties.context_size,
      input |-> yaml_data.pricing.input,
      output |-> yaml_data.pricing.output,
      zh_Hans |-> yaml_data.label.zh_Hans,
      en_US |-> yaml_data.label.en_US,
      features |-> Range(yaml_data.features) ]
Derived(api_model) ==
    [ context_size |-> api_model.context_size,
      input |-> convert_price(api_model.input_token_price_per_m),
      output |-> convert_price(api_model.output_token_price_per_m),
      zh_Hans |-> TitleOf(api_model),
      en_US |-> TitleOf(api_model),
      features |-> determine_model_features(api_model) ]

\* every other key of a definition
Ungoverned(yaml_data) ==
    [ model |-> yaml_data.model,
      model_type |-> yaml_data.model_type,
      mode |-> yaml_data.model_properties.mode,
      parameter_rules |-> yaml_data.parameter_rules,
      unit |-> yaml_data.pricing.unit,
      currency |-> yaml_data.pricing.currency ]

\* the directory without the index file
PerModel(fs) == [n \in DOMAIN fs \ {PositionName} |-> fs[n]]

ScannedIds == {scanned[i][1] : i \in DOMAIN scanned}
CreatedNames == {c[2] : c \in created}

\* the .yaml files of the directory that do not hold a mapping when the run starts
UnparsedAtStart ==
    {n \in DOMAIN startFiles : EndsWith(n, YamlExt) /\ startFiles[n].kind = "other"}

-----------------------------------------------------------------------------
(* The claims about a run *)

\* C1: after a completed run the ids held by the definition files are exactly
\* the remote ids, and every definition file holds the governed values derived
\* from the remote record of its id.
C1_SyncInvariant ==
    pc = "done" =>
        /\ ModelsHeld(files) = RemoteIds
        /\ \A n \in DefinitionFiles(files) :
              files[n].data.model \in RemoteIds =>
                  Governed(files[n].data) = Derived(RemoteRecord(files[n].data.model))

\* C2: a second run against the same catalog writes, creates and deletes no
\* per-model file, reports no change line, and leaves every per-model file
\* (and the content of the index) as the first run left it.
C2_Idempotent ==
    (run >= 2 /\ pc = "done") =>
        /\ updated = {} /\ created = {} /\ deleted = {} /\ changes = 0
        /\ PerModel(files) = PerModel(prevFiles)
        /\ files[PositionName] = prevFiles[PositionName]

\* C3: after a completed run every definition file of an id absent from the
\* catalog is gone, every definition file of an id in the catalog is still
\* there, and the delete loop removed no file this run created or updated.
C3_DeletionRetention ==
    pc = "done" =>
        /\ \A n \in DefinitionFiles(startFiles) :
              IF startFiles[n].data.model \in RemoteIds
              THEN n \in DOMAIN files /\ n \notin deleted
              ELSE n \notin DefinitionFiles(files)
                     \/ files[n].data.model \in RemoteIds
        /\ deleted \cap (CreatedNames \cup updated) = {}

\* C4: after a completed run every remote id that had no registered file at
\* scan time has exactly one file, of the derived name, holding the template
\* for that id, and its creation replaced no file of another identifier.
C4_Creation ==
    pc = "done" =>
        \A id \in RemoteIds \ ScannedIds :
            /\ FilesOf(files, id) = {NewFilename(id)}
            /\ files[NewFilename(id)] = Mapping(create_yaml_template(id, RemoteRecord(id)))
            /\ NewFilename(id) \in DefinitionFiles(startFiles)
                   => startFiles[NewFilename(id)].data.model = id
            /\ \A other \in (RemoteIds \ ScannedIds) \ {id} :
                   NewFilename(other) # NewFilename(id)

\* C5: when the fetch fails (get_api_data raises, or the document has no data
\* array) the run aborts and the directory, index file included, is as the run
\* found it.
C5_FetchFailureAborts ==
    /\ pc = "aborted" => files = startFiles
    /\ remote.kind # "array" => (pc \in {"start", "aborted"} /\ files = startFiles)

\* the part of C5 that holds: a run that raised at the fetch (lines 170-171)
\* has touched no file
AbortLeavesDirectory ==
    pc = "aborted" =>
        files = startFiles /\ updated = {} /\ created = {} /\ deleted = {}

\* C9: after a completed run every file registered for a remote id at scan time
\* has its ungoverned keys (parameter_rules among them) as before the run, and
\* was written only if a governed field differed from the derived value.
C9_Frame ==
    pc = "done" =>
        \A i \in DOMAIN scanned :
            LET id == scanned[i][1]
                n == scanned[i][2]
            IN  id \in RemoteIds =>
                    /\ n \in DefinitionFiles(files)
                    /\ Ungoverned(files[n].data) = Ungoverned(startFiles[n].data)
                    /\ (n \in updated \cup CreatedNames \/ files[n] # startFiles[n])
                           => Governed(startFiles[n].data) # Derived(RemoteRecord(id))

\* C10: a .yaml file that holds no mapping is never registered by the scan,
\* never written by the update branch and never removed by the delete loop, and
\* every remote id without a registered file goes through the create branch.
C10_UnparsedIsAbsent ==
    /\ \A n \in UnparsedAtStart :
          /\ \A i \in DOMAIN existing_files : existing_files[i][2] # n
          /\ n \notin updated
          /\ n \notin deleted
    /\ pc = "done" =>
          \A id \in RemoteIds :
              ~DictHas(scanned, id) => <<id, NewFilename(id)>> \in created

\* a completed run that found an unparsable .yaml file, left it in place, and
\* created a file for a remote id no file was registered for
C10_Witness ==
    /\ pc = "done"
    /\ created # {}
    /\ \E n \in UnparsedAtStart \ {PositionName} :
          n \in DOMAIN files /\ files[n] = startFiles[n]

-----------------------------------------------------------------------------
(* The pure functions applied to drawn inputs *)

RunOff ==
    /\ pc = "off"
    /\ run = 1
    /\ remote = NoDataDoc
    /\ files = [n \in {} |-> Other(<<>>)]
    /\ api_models = <<>>
    /\ listing = {}
    /\ existing_files = <<>>
    /\ idx = 1
    /\ startFiles = files
    /\ prevFiles = files
    /\ scanned = <<>>
    /\ updated = {}
    /\ created = {}
    /\ deleted = {}
    /\ changes = 0
    /\ error = "none"

\* raw prices: the multiples of 100 up to MaxHundreds hundred, and prices
\* around the powers of ten up to 10^7
PriceInputs ==
    {100 * k : k \in 0..MaxHundreds}
        \cup {1, 9, 10, 99, 101, 8900, 9990, 12345, 99999, 100000, 123456,
              999900, 999999, 1000000, 1000001, 1000100, 1234500, 5000000,
              9999900, 9999999, 10000000}

\* the rounding error of the float division, in units of 1e-6 / FloatScale
RoundErr == {-1, 0, 1}

InitPrice ==
    /\ RunOff
    /\ fpc = "price"
    /\ price \in PriceInputs \X PriceInputs
    /\ rerr \in RoundErr \X RoundErr
    /\ priceOut = <<>>
    /\ rec = RemoteY
    /\ featOut = {}
    /\ catalog = <<>>
    /\ indexOut = <<>>

\* convert_price on both prices
ConvertPrices ==
    /\ fpc = "price"
    /\ priceOut' = <<convert_price_float(price[1], rerr[1]),
                     convert_price_float(price[2], rerr[2])>>
    /\ fpc' = "priced"
    /\ UNCHANGED <<runVars, price, rerr, rec, featOut, catalog, indexOut>>

NextPrice == ConvertPrices

SpecPrice == InitPrice /\ [][NextPrice]_vars

\* ids over the characters of size tokens, and ids that say "think"
SizeAlphabet == {"7", "2", "8", "b", "B", "-"}
ThinkIds == {<<"a", "/", "t", "h", "i", "n", "k">>, <<"T", "h", "I", "n", "k", "8", "b">>,
             <<"a", "/", "t", "h", "i", "n">>}
FeatureIds == StringsUpTo(SizeAlphabet, MaxIdLen) \cup ThinkIds
FeatureDescriptions == {<<>>, <<"x", "si", "kao">>, <<"si", "x", "wei">>}
FeatureLists == {<<>>, <<"function-calling", "vision", "function-calling">>,
                 <<"structured-outputs", "reasoning">>}

InitFeatures ==
    /\ RunOff
    /\ fpc = "features"
    /\ price = <<0, 0>>
    /\ rerr = <<0, 0>>
    /\ priceOut = <<>>
    /\ rec \in {[RemoteY EXCEPT !.id = i, !.description = d, !.features = f] :
                   i \in FeatureIds, d \in FeatureDescriptions, f \in FeatureLists}
    /\ featOut = {}
    /\ catalog = <<>>
    /\ indexOut = <<>>

\* determine_model_features on the record
DetermineFeatures ==
    /\ fpc = "features"
    /\ featOut' = determine_model_features(rec)
    /\ fpc' = "featured"
    /\ UNCHANGED <<runVars, price, rerr, priceOut, rec, catalog, indexOut>>

NextFeatures == DetermineFeatures

SpecFeatures == InitFeatures /\ [][NextFeatures]_vars

\* catalogs for the index: providers "ab", "aB", "z" and an id without "/"
IdAbF == <<"a", "b", "/", "f">>
IdAbG == <<"a", "b", "/", "g">>
IdZH == <<"z", "/", "h">>
IdN == <<"n">>
IdABQ == <<"a", "B", "/", "q">>
IndexRecords == {[RemoteY EXCEPT !.id = i] : i \in {IdAbF, IdAbG, IdZH, IdN, IdABQ}}

InitIndex ==
    /\ RunOff
    /\ fpc = "index"
    /\ price = <<0, 0>>
    /\ rerr = <<0, 0>>
    /\ priceOut = <<>>
    /\ rec = RemoteY
    /\ featOut = {}
    /\ catalog \in SeqsUpTo(IndexRecords, MaxIndexCatalog)
    /\ indexOut = <<>>

\* create_position_yaml on the catalog: the text of _position.yaml
WriteIndex ==
    /\ fpc = "index"
    /\ indexOut' = create_position_yaml(catalog)
    /\ fpc' = "indexed"
    /\ UNCHANGED <<runVars, price, rerr, priceOut, rec, featOut, catalog>>

NextIndex == WriteIndex

SpecIndex == InitIndex /\ [][NextIndex]_vars

-----------------------------------------------------------------------------
(* The claims about the pure functions *)

\* the value of a decimal string, in millionths
DecimalMicros(s) ==
    LET parts == Split(s, ".")
        frac == IF Len(parts) > 1 THEN parts[2] ELSE <<>>
    IN  ToInt(parts[1]) * 1000000
            + ToInt(frac \o [i \in 1..(6 - Len(frac)) |-> "0"])

\* a decimal string in its shortest form: digits, at most one point followed by
\* one to six digits of which the last is not 0, no leading zero before others
ShortestDecimal(s) ==
    LET parts == Split(s, ".")
    IN  /\ Len(parts) \in {1, 2}
        /\ parts[1] # <<>>
        /\ \A i \in DOMAIN parts[1] : IsDigit(parts[1][i])
        /\ (Len(parts[1]) > 1 => parts[1][1] # "0")
        /\ Len(parts) = 2 =>
              /\ Len(parts[2]) \in 1..6
              /\ \A i \in DOMAIN parts[2] : IsDigit(parts[2][i])
              /\ parts[2][Len(parts[2])] # "0"

HasSizeTokenOver70(model_id) ==
    \E i \in DOMAIN model_id : \E j \in i..(Len(model_id) - 1) :
        /\ \A k \in i..j : IsDigit(model_id[k])
        /\ model_id[j + 1] \in {"b", "B"}
        /\ ToInt(SubSeq(model_id, i, j)) > 70

\* C8: agent-thought is included whenever the id holds some size token over 70,
\* wherever it sits among other size tokens; without "think" in the id and
\* without a reasoning keyword it is included only then.
C8_AgentThoughtBySize ==
    fpc = "featured" =>
        /\ HasSizeTokenOver70(rec.id) => AGENT_THOUGHT \in featOut
        /\ (~HasThinkInId(rec.id) /\ ~HasThinkingKeyword(rec.description)
                /\ AGENT_THOUGHT \in featOut)
              => HasSizeTokenOver70(rec.id)

\* the provider prefix: the id up to its first "/", the whole id without one
PrefixOf(model_id) ==
    IF Slash \in Range(model_id)
    THEN SubSeq(model_id, 1,
                (CHOOSE i \in DOMAIN model_id :
                    model_id[i] = Slash /\ \A k \in 1..(i - 1) : model_id[k] # Slash) - 1)
    ELSE model_id

CatalogIds == [i \in DOMAIN catalog |-> catalog[i].id]
Prefixes(ids) == {PrefixOf(ids[i]) : i \in DOMAIN ids}
FirstSeen(ids, prefix) ==
    CHOOSE i \in DOMAIN ids :
        PrefixOf(ids[i]) = prefix /\ \A k \in 1..(i - 1) : PrefixOf(ids[k]) # prefix
MembersOf(ids, prefix) ==
    LET Test(id) == PrefixOf(id) = prefix IN SelectSeq(ids, Test)

\* the index file read back line by line
IsHeaderLine(l) == Len(l) >= 1 /\ l[1] = "#"
IsEntryLine(l) == Len(l) >= 2 /\ l[1] = "-" /\ l[2] = " "
HeaderPositions(lines) == {h \in DOMAIN lines : IsHeaderLine(lines[h])}
EntryPositions(lines) == {e \in DOMAIN lines : IsEntryLine(lines[e])}
\* the ids of the entries between header h and the next header, in file order
GroupUnder(lines, h) ==
    LET Test(k) == /\ IsEntryLine(lines[k])
                   /\ k > h
                   /\ \A h2 \in (h + 1)..(k - 1) : ~IsHeaderLine(lines[h2])
        positions == SelectSeq([k \in DOMAIN lines |-> k], Test)
    IN  [k \in DOMAIN positions |->
            SubSeq(lines[positions[k]], 3, Len(lines[positions[k]]))]
\* the headers that name a prefix in title case and list its members
HeadersOf(lines, ids, prefix) ==
    {h \in HeaderPositions(lines) :
        /\ lines[h] = <<"#", " ">> \o Title(prefix) \o <<" ", "M", "o", "d", "e", "l", "s">>
        /\ GroupUnder(lines, h) = MembersOf(ids, prefix)}

====
